---- MODULE Spec2Model ----
(***************************************************************************)
(* odebug: a process-local debug-log writer (src/src/lib.rs).              *)
(*                                                                         *)
(* Text is modelled by TLA+ strings, a file by the sequence of the chunks  *)
(* that were appended to it (one chunk per write system call), a path by   *)
(* the sequence of its components.                                         *)
(***************************************************************************)
EXTENDS Integers, Sequences, FiniteSets, TLC

VARIABLES
    cfg,          \* the host program: which threads call, with which arguments
    env,          \* process environment: cwd, CARGO_TARGET_DIR, Cargo.toml files
    dirs,         \* directories that exist
    disk,         \* path -> sequence of chunks, for every file that exists
    lazy,         \* DEBUG_DIR: the Lazy cell
    initialized,  \* INITIALIZED_FILES: the set behind the mutex
    lockOwner,    \* holder of the INITIALIZED_FILES mutex
    th,           \* per thread: position in write_to_debug_file and its locals
    hist,         \* per thread: the calls that have returned, in order
    stderr,       \* lines printed with eprintln!
    faults,       \* number of I/O failures so far
    ghost         \* history counters used to state the properties

vars == <<cfg, env, dirs, disk, lazy, initialized, lockOwner, th, hist,
          stderr, faults, ghost>>

----------------------------------------------------------------------------
(* Bounds *)

MaxCalls == 2        \* calls per run of two threads
MaxSeqCalls == 3     \* calls per run of one thread
MaxFormCalls == 2    \* calls per run of one thread that uses every form
MaxEnvCalls == 2     \* calls per run while the environment changes
MaxEnvChanges == 1   \* changes of the environment per run
MaxExtCalls == 2     \* calls per run of one thread while files are removed from outside
MaxExtRemoves == 1   \* removals from outside per run
MaxLiveCalls == 2    \* calls per run of two threads that are scheduled fairly
MaxMacroCalls == 1   \* calls per run of one thread in a build with or without logging
MaxResolveCalls == 1 \* calls per run in an arbitrary build and environment
MaxFaults == 1       \* I/O failures per run

Threads == {"t1", "t2"}

----------------------------------------------------------------------------
(* Text *)

\* Option<T>
None == << >>
Some(s) == <<s>>
IsSome(o) == o /= None
Unwrap(o) == o[1]

SEPARATOR_LINE == "-----------------------------------------------------------"

\* Capacity of std::io::BufWriter::new
BufCap == 8192

\* What callers log. A content of BufCap bytes or more is written as a token,
\* not spelled out; CallNo names the n-th call of a thread.
CallNo == <<"1", "2", "3", "4", "5", "6">>
SmallContent(t, n) == "msg " \o t \o "." \o CallNo[n]
HugeContent(t, n) == "<8192 bytes " \o t \o "." \o CallNo[n] \o ">"
HugeContents == {HugeContent(t, n) : t \in Threads, n \in DOMAIN CallNo}

ByteLen(s) == IF s \in HugeContents THEN BufCap ELSE Len(s)

RECURSIVE Concat(_)
Concat(ss) == IF ss = << >> THEN "" ELSE Head(ss) \o Concat(Tail(ss))

RECURSIVE TotalLen(_)
TotalLen(ss) == IF ss = << >> THEN 0 ELSE ByteLen(Head(ss)) + TotalLen(Tail(ss))

\* writeln!(writer, fmt, args): the pieces handed to the writer, one write_all
\* each, the trailing "\n" of writeln! included.
WritelnNlSep == <<"\n", SEPARATOR_LINE, "\n">>
WritelnSep == <<SEPARATOR_LINE, "\n">>
WritelnHeaderContext(header, context) == <<"> ", header, " (", context, ")", "\n">>
WritelnHeader(header) == <<"> ", header, "\n">>
WritelnAtContext(context) == <<"> [at ", context, "]", "\n">>
WritelnContent(content) == <<content, "\n">>
WritelnNlContent(content) == <<"\n", content, "\n">>

\* The match with the label lines of the two one-sided branches exchanged
EntryMatchSwapped(content, header, context) ==
    IF IsSome(header) /\ IsSome(context) THEN
        << WritelnNlSep,
           WritelnHeaderContext(Unwrap(header), Unwrap(context)),
           WritelnSep,
           WritelnContent(content) >>
    ELSE IF IsSome(header) THEN
        << WritelnNlSep, WritelnAtContext(Unwrap(header)), WritelnSep,
           WritelnContent(content) >>
    ELSE IF IsSome(context) THEN
        << WritelnNlSep, WritelnHeader(Unwrap(context)), WritelnSep,
           WritelnContent(content) >>
    ELSE
        << WritelnNlContent(content) >>

\* The match (header, context) of write_to_debug_file: the writeln! statements
\* of the selected branch, in order.
EntryMatch(content, header, context) ==
    IF IsSome(header) /\ IsSome(context) THEN
        << WritelnNlSep,
           WritelnHeaderContext(Unwrap(header), Unwrap(context)),
           WritelnSep,
           WritelnContent(content) >>
    ELSE IF IsSome(header) THEN
        << WritelnNlSep,
           WritelnHeader(Unwrap(header)),
           WritelnSep,
           WritelnContent(content) >>
    ELSE IF IsSome(context) THEN
        << WritelnNlSep,
           WritelnAtContext(Unwrap(context)),
           WritelnSep,
           WritelnContent(content) >>
    ELSE
        << WritelnNlContent(content) >>

RECURSIVE Flatten(_)
Flatten(sss) == IF sss = << >> THEN << >> ELSE Head(sss) \o Flatten(Tail(sss))

\* All pieces one call hands to its BufWriter.
Pieces(content, header, context) == Flatten(EntryMatch(content, header, context))

\* The bytes of one entry.
Rendered(content, header, context) == Concat(Pieces(content, header, context))

----------------------------------------------------------------------------
(* Paths and the directory resolver *)

join(p, c) == Append(p, c)
\* PathBuf::pop: FALSE (and no change) when the path has no parent
CanPop(p) == Len(p) > 1
Pop(p) == SubSeq(p, 1, Len(p) - 1)

\* env.cwd is None when std::env::current_dir() fails, else Some(path);
\* env.target is the CARGO_TARGET_DIR variable, env.unicode whether its value
\* is valid Unicode; env.cargo[d] tells what d/Cargo.toml is: "absent",
\* "package", "workspace" or "unreadable".
CargoKind(e, d) == IF d \in DOMAIN e.cargo THEN e.cargo[d] ELSE "absent"

\* A walk that stops at the first Cargo.toml it can read, marker or not
WalkUpAnyManifest(e, current_dir) ==
    IF \E k \in 1..Len(current_dir) :
          CargoKind(e, SubSeq(current_dir, 1, k)) \in {"workspace", "package"}
    THEN Some(SubSeq(current_dir, 1,
              CHOOSE k \in 1..Len(current_dir) :
                  /\ CargoKind(e, SubSeq(current_dir, 1, k)) \in {"workspace", "package"}
                  /\ \A j \in (k + 1)..Len(current_dir) :
                        CargoKind(e, SubSeq(current_dir, 1, j)) \notin {"workspace", "package"}))
    ELSE None

RECURSIVE WalkUp(_, _)
WalkUp(e, current_dir) ==
    IF CargoKind(e, current_dir) = "workspace" THEN Some(current_dir)
    ELSE IF CanPop(current_dir) THEN WalkUp(e, Pop(current_dir))
    ELSE None

find_workspace_root(e) ==
    IF e.cwd = None THEN None ELSE WalkUp(e, Unwrap(e.cwd))

\* std::env::current_dir().unwrap_or_default()
CurrentDirOrDefault(e) == IF e.cwd = None THEN << >> ELSE Unwrap(e.cwd)

\* A default that ignores the workspace root
default_debug_dirCwdOnly(feat, e) == join(CurrentDirOrDefault(e), ".debug")

default_debug_dir(feat, e) ==
    IF feat.use_workspace /\ find_workspace_root(e) /= None
    THEN join(Unwrap(find_workspace_root(e)), ".debug")
    ELSE join(CurrentDirOrDefault(e), ".debug")

\* std::env::var("CARGO_TARGET_DIR").ok(): a variable that is not set, or
\* whose value is not valid Unicode, is an Err.
env_var_target(e) == IF e.target /= None /\ e.unicode THEN e.target ELSE None

find_target_dir(feat, e) ==
    IF env_var_target(e) /= None THEN env_var_target(e)
    ELSE IF feat.use_workspace /\ find_workspace_root(e) /= None
    THEN Some(join(Unwrap(find_workspace_root(e)), "target"))
    ELSE IF e.cwd = None THEN None
    ELSE Some(join(Unwrap(e.cwd), "target"))

\* A resolver that takes the target directory itself
determine_debug_dirNoSuffix(feat, e) ==
    IF feat.output_to_target /\ find_target_dir(feat, e) /= None
    THEN Unwrap(find_target_dir(feat, e))
    ELSE default_debug_dir(feat, e)

determine_debug_dir(feat, e) ==
    IF feat.output_to_target /\ find_target_dir(feat, e) /= None
    THEN join(Unwrap(find_target_dir(feat, e)), "odebug")
    ELSE default_debug_dir(feat, e)

\* What the find_workspace_root calls of one resolution returned: nothing when
\* the resolution makes no such call.
WorkspaceRootCalls(feat, e) ==
    IF feat.use_workspace /\ (~feat.output_to_target \/ env_var_target(e) = None)
    THEN <<find_workspace_root(e)>> ELSE << >>

\* The warnings the resolver prints on its way.
ResolverWarnings(feat, e) ==
    (IF feat.output_to_target /\ find_target_dir(feat, e) = None
     THEN <<"Warning: Could not find target directory, falling back to default location">>
     ELSE << >>)
    \o
    (IF (~feat.output_to_target \/ find_target_dir(feat, e) = None)
        /\ feat.use_workspace /\ find_workspace_root(e) = None
     THEN <<"Warning: Could not find workspace root, falling back to current directory">>
     ELSE << >>)

----------------------------------------------------------------------------
(* BufWriter *)

\* BufWriter::write_all(piece) with buf buffered: the buffer is flushed first
\* when the piece does not fit, and a piece of a whole buffer or more bypasses
\* the buffer.
NeedsFlush(buf, piece) == buf /= << >> /\ ByteLen(piece) > BufCap - TotalLen(buf)
WritesDirect(piece) == ByteLen(piece) >= BufCap

\* Hand pieces[i..] to the writer for as long as no system call is needed.
RECURSIVE BufFill(_, _, _)
BufFill(buf, pieces, i) ==
    IF i > Len(pieces) THEN [buf |-> buf, next |-> i]
    ELSE IF NeedsFlush(buf, pieces[i]) \/ WritesDirect(pieces[i])
         THEN [buf |-> buf, next |-> i]
         ELSE BufFill(Append(buf, pieces[i]), pieces, i + 1)

----------------------------------------------------------------------------
(* The filesystem *)

Exists(d, path) == path \in DOMAIN d

\* remove_dir_all of the parent: every file goes
UnlinkAll(d, path) == << >>

\* unlink
Unlink(d, path) == [q \in DOMAIN d \ {path} |-> d[q]]

\* write(2) on a handle: a handle whose file was unlinked writes to a file
\* no path names any more.
Appended(d, path, handle, chunk) ==
    IF handle = "live" THEN [d EXCEPT ![path] = Append(@, chunk)] ELSE d

\* The bytes of a file, "" when it does not exist.
Bytes(d, path) == IF Exists(d, path) THEN Concat(d[path]) ELSE ""

----------------------------------------------------------------------------
(* The odebug! macro *)

\* file!():line!() of the call site
CallSite == "main.rs:7"

MacroArms == {"file::Header(c)", "file::Header(fmt, args)", "file::(c)",
              "file::(fmt, args)", "::Header(c)", "::Header(fmt, args)",
              "name => c", "name => fmt, args",
              "lit.to_file(name)", "lit.with_header(h)",
              "lit.to_file(name).with_header(h)",
              "id.to_file(name)", "id.with_header(h)",
              "id.to_file(name).with_header(h)",
              "c", "fmt, args"}

\* Arms that all log to the default file under the given header
internal_debug_macroOneArm(arm, ident, name, h) ==
    [filename |-> "debug.log", header |-> Some(h), context |-> Some(CallSite)]

\* The arguments an arm passes to write_to_debug_file: ident is the $file
\* identifier, name the $file expression, h the header of the call site.
internal_debug_macro(arm, ident, name, h) ==
    LET ctx == Some(CallSite) IN
    CASE arm \in {"file::Header(c)", "file::Header(fmt, args)"} ->
            [filename |-> ident \o ".log", header |-> Some(h), context |-> ctx]
      [] arm \in {"file::(c)", "file::(fmt, args)"} ->
            [filename |-> ident \o ".log", header |-> None, context |-> ctx]
      [] arm \in {"::Header(c)", "::Header(fmt, args)"} ->
            [filename |-> "debug.log", header |-> Some(h), context |-> ctx]
      [] arm \in {"name => c", "name => fmt, args"} ->
            [filename |-> name, header |-> None, context |-> ctx]
      [] arm \in {"lit.to_file(name)", "id.to_file(name)"} ->
            [filename |-> name, header |-> None, context |-> ctx]
      [] arm \in {"lit.with_header(h)", "id.with_header(h)"} ->
            [filename |-> "debug.log", header |-> Some(h), context |-> ctx]
      [] arm \in {"lit.to_file(name).with_header(h)",
                  "id.to_file(name).with_header(h)"} ->
            [filename |-> name, header |-> Some(h), context |-> ctx]
      [] arm \in {"c", "fmt, args"} ->
            [filename |-> "debug.log", header |-> None, context |-> ctx]

\* A call site of the host program: a direct call of write_to_debug_file
\* (via = "api") or an odebug! invocation of one arm (via = "macro"), with a
\* content of its own on every execution.
ApiSite(name, header, context, size) ==
    [via |-> "api", arm |-> "-", ident |-> "-", name |-> name,
     header |-> header, context |-> context, size |-> size]
MacroSite(arm, ident, name, h, size) ==
    [via |-> "macro", arm |-> arm, ident |-> ident, name |-> name,
     header |-> Some(h), context |-> Some(CallSite), size |-> size]

\* No call site: the thread is between two calls.
NoSite == ApiSite("-", None, None, "-")

ContentOf(s, t, n) ==
    IF s.size = "huge" THEN HugeContent(t, n) ELSE SmallContent(t, n)

----------------------------------------------------------------------------
(* State *)

FileNames == {"debug.log", "custom.log"}
FileIdents == {"custom"}
HeaderNames == {"INFO"}
NoThread == "-"

\* The environments the process may run in.
Cwd1 == <<"/", "ws", "crate">>
Cwd2 == <<"/", "tmp">>
Env0 == [cwd |-> Some(Cwd1), target |-> None, unicode |-> TRUE, cargo |-> << >>]
Envs == {[cwd |-> c, target |-> None, unicode |-> TRUE, cargo |-> << >>] :
            c \in {Some(Cwd1), Some(Cwd2)}}

NoFeatures == [output_to_target |-> FALSE, use_workspace |-> FALSE]

IdleTh == [pc |-> "idle", n |-> 0, via |-> "-", file |-> "-", content |-> "",
           header |-> None, context |-> None, debug_dir |-> << >>,
           absent |-> FALSE, should_clear |-> FALSE, path |-> << >>,
           handle |-> "none", buf |-> << >>, next |-> 0, sent |-> << >>,
           res |-> "-", failed |-> {}, diag |-> 0, site |-> NoSite,
           created |-> FALSE]

Ghost0 == [removes |-> [f \in FileNames |-> 0],  \* remove_file calls per file
           computed |-> 0,                        \* runs of the DEBUG_DIR closure
           reads |-> {},                          \* values DEBUG_DIR was read as
           lateReads |-> 0,     \* reads made while the environment resolves elsewhere
           envChanges |-> 0,
           root |-> << >>,      \* what find_workspace_root returned, when called
           extRemoves |-> 0]

\* What is on disk before the process starts: the debug directory may exist,
\* and then hold log files of an earlier run.
Stale == "stale entry\n"

InitFs(d) ==
    \/ dirs = {} /\ disk = << >>
    \/ /\ dirs = {d}
       /\ \E old \in SUBSET FileNames : disk = [q \in {join(d, f) : f \in old} |-> <<Stale>>]

InitProcess ==
    /\ lazy = [state |-> "uninit", value |-> << >>]
    /\ initialized = {}
    /\ lockOwner = NoThread
    /\ th = [t \in Threads |-> IdleTh]
    /\ hist = [t \in Threads |-> << >>]
    /\ stderr = << >>
    /\ faults = 0
    /\ ghost = Ghost0

\* Two threads that log to two files, through the function and the macro.
Sites == {ApiSite("debug.log", None, None, "small"),
          MacroSite("c", "custom", "custom.log", "INFO", "small"),
          MacroSite("name => c", "custom", "custom.log", "INFO", "huge")}

Init ==
    /\ cfg = [threads |-> Threads, calls |-> MaxCalls, sites |-> Sites,
              features |-> NoFeatures, logging |-> TRUE, history |-> FALSE]
    /\ env = Env0
    /\ InitFs(determine_debug_dir(NoFeatures, Env0))
    /\ InitProcess

----------------------------------------------------------------------------
(* Calls *)

CanFail == faults < MaxFaults

\* Calls made so far by the threads of S
RECURSIVE CallsMade(_)
CallsMade(S) ==
    IF S = {} THEN 0
    ELSE LET t == CHOOSE u \in S : TRUE IN th[t].n + CallsMade(S \ {t})

\* The host program has a call left to make.
MayCall(t) == t \in cfg.threads /\ th[t].pc = "idle" /\ CallsMade(Threads) < cfg.calls

\* The history of a call remembers its call site, and whether its open
\* created the file, in the programs whose properties speak of them
\* (cfg.history).
Noted(s) == IF cfg.history THEN s ELSE NoSite

\* The entry of hist for an invocation that was compiled to nothing
NoCall ==
    [file |-> "-", content |-> "", header |-> None, context |-> None,
     via |-> "macro", res |-> "-", clear |-> FALSE, sent |-> << >>,
     left |-> << >>, failed |-> {}, diag |-> 0, end |-> "nothing",
     site |-> NoSite, created |-> FALSE]

Started(r, n, via, filename, content, header, context) ==
    [r EXCEPT !.pc = "deref", !.n = n, !.via = via, !.file = filename,
              !.content = content, !.header = header, !.context = context]

\* A caller invokes write_to_debug_file(filename, content, header, context).
ApiCall(t) ==
    /\ MayCall(t)
    /\ \E s \in cfg.sites :
          /\ s.via = "api"
          /\ th' = [th EXCEPT ![t] = [Started(@, th[t].n + 1, "api", s.name,
                        ContentOf(s, t, th[t].n + 1), s.header, s.context)
                        EXCEPT !.site = Noted(s)]]
    /\ UNCHANGED <<cfg, env, dirs, disk, lazy, initialized, lockOwner, hist,
                   stderr, faults, ghost>>

\* odebug!: the invocation expands to __internal_debug_macro! under
\* cfg(any(debug_assertions, feature = "always_log")), and to nothing in
\* every other build.
odebug(logging, arm, ident, name, h) ==
    IF logging THEN Some(internal_debug_macro(arm, ident, name, h)) ELSE None

\* A caller invokes odebug!(...) in one of its forms.
MacroCall(t) ==
    /\ MayCall(t)
    /\ \E s \in cfg.sites :
          /\ s.via = "macro"
          /\ LET a == odebug(cfg.logging, s.arm, s.ident, s.name, Unwrap(s.header))
             IN IF IsSome(a)
                THEN /\ th' = [th EXCEPT ![t] = [Started(@, th[t].n + 1, "macro",
                                  Unwrap(a).filename, ContentOf(s, t, th[t].n + 1),
                                  Unwrap(a).header, Unwrap(a).context)
                                  EXCEPT !.site = Noted(s)]]
                     /\ UNCHANGED hist
                ELSE /\ th' = [th EXCEPT ![t] = [@ EXCEPT !.n = @ + 1]]
                     /\ hist' = [hist EXCEPT ![t] = Append(@,
                                    [NoCall EXCEPT !.site = Noted(s)])]
    /\ UNCHANGED <<cfg, env, dirs, disk, lazy, initialized, lockOwner,
                   stderr, faults, ghost>>

\* An arm that ends in .unwrap()
MacroEpilogueUnwrap(res) == IF res = "Err" THEN "panic" ELSE "unit"

\* unwrap_or_else(|e| eprintln!(...)) at the end of every macro arm: what
\* the invocation does with the result of write_to_debug_file.
MacroEpilogue(res) == IF res = "Err" THEN "eprintln" ELSE "unit"

\* The call of thread record r returns res. The macro turns an Err into a line
\* on standard error; the function's own caller receives it.
Return(t, r, res) ==
    LET end == IF r.via = "macro" THEN MacroEpilogue(res) ELSE "returned"
        printed == IF end = "eprintln" THEN <<"Failed to write debug log">> ELSE << >>
    IN
    /\ th' = [th EXCEPT ![t] = [IdleTh EXCEPT !.n = r.n]]
    /\ hist' = [hist EXCEPT ![t] = Append(@,
                    [file |-> r.file, content |-> r.content, header |-> r.header,
                     context |-> r.context, via |-> r.via, res |-> res,
                     clear |-> r.should_clear, sent |-> r.sent, left |-> r.buf,
                     failed |-> r.failed, diag |-> r.diag + Len(printed),
                     end |-> end, site |-> r.site, created |-> r.created])]
    /\ stderr' = stderr \o printed

\* r after its I/O step `what` failed
Fail(r, what) == [r EXCEPT !.failed = @ \cup {what}]

----------------------------------------------------------------------------
(* DEBUG_DIR *)

\* A cell that forgets its value: every access initialises again.
LazyMustInitAgain(lz) == lz.state /= "running"

\* Lazy::force runs the initialiser only on a cell nobody has initialised or is
\* initialising.
LazyMustInit(lz) == lz.state = "uninit"

\* First access: the closure starts, and resolves the directory.
LazyBegin(t) ==
    /\ th[t].pc = "deref" /\ LazyMustInit(lazy)
    /\ lazy' = [lazy EXCEPT !.state = "running"]
    /\ th' = [th EXCEPT ![t] = [@ EXCEPT !.pc = "lazy",
                 !.debug_dir = determine_debug_dir(cfg.features, env),
                 !.failed = IF ResolverWarnings(cfg.features, env) = << >>
                            THEN @ ELSE @ \cup {"resolve"},
                 !.diag = @ + Len(ResolverWarnings(cfg.features, env))]]
    /\ stderr' = stderr \o ResolverWarnings(cfg.features, env)
    /\ ghost' = [ghost EXCEPT !.computed = @ + 1,
                               !.root = WorkspaceRootCalls(cfg.features, env)]
    /\ UNCHANGED <<cfg, env, dirs, disk, initialized, lockOwner, hist, faults>>

\* The closure creates the directory, tolerating failure, and the cell is set.
LazyEnd(t) ==
    /\ th[t].pc = "lazy"
    /\ \/ /\ dirs' = dirs \cup {th[t].debug_dir}
          /\ th' = [th EXCEPT ![t] = [@ EXCEPT !.pc = "deref"]]
          /\ UNCHANGED <<stderr, faults>>
       \/ /\ th[t].debug_dir \notin dirs /\ CanFail
          /\ faults' = faults + 1
          /\ stderr' = Append(stderr, "Failed to create debug directory")
          /\ th' = [th EXCEPT ![t] = [Fail(@, "lazy_mkdir") EXCEPT
                       !.pc = "deref", !.diag = @ + 1]]
          /\ UNCHANGED dirs
    /\ lazy' = [state |-> "done", value |-> th[t].debug_dir]
    /\ UNCHANGED <<cfg, env, disk, initialized, lockOwner, hist, ghost>>

\* Lines 131-133: let _ = fs::create_dir_all(&*DEBUG_DIR); DEBUG_DIR.join(filename)
Mkdir(t) ==
    LET r == [th[t] EXCEPT !.pc = "lock", !.path = join(lazy.value, th[t].file)] IN
    /\ th[t].pc = "deref" /\ ~LazyMustInit(lazy) /\ lazy.state = "done"
    /\ \/ /\ dirs' = dirs \cup {lazy.value}
          /\ th' = [th EXCEPT ![t] = r]
          /\ UNCHANGED faults
       \/ /\ lazy.value \notin dirs /\ CanFail
          /\ faults' = faults + 1
          /\ th' = [th EXCEPT ![t] = Fail(r, "mkdir")]
          /\ UNCHANGED dirs
    /\ ghost' = [ghost EXCEPT
                   !.reads = @ \cup {lazy.value},
                   !.lateReads = @ + IF determine_debug_dir(cfg.features, env) /= lazy.value
                                     THEN 1 ELSE 0]
    /\ UNCHANGED <<cfg, env, disk, lazy, initialized, lockOwner, hist, stderr>>

----------------------------------------------------------------------------
(* write_to_debug_file *)

\* A lock that excludes nobody.
LockFreeAlways(owner) == TRUE

\* Mutex::lock returns once no other thread holds the mutex.
LockFree(owner) == owner = NoThread

\* Lines 136-137: INITIALIZED_FILES.lock().unwrap(), then contains(filename)
LockContains(t) ==
    /\ th[t].pc = "lock" /\ LockFree(lockOwner)
    /\ lockOwner' = t
    /\ th' = [th EXCEPT ![t] = [@ EXCEPT !.pc = "locked",
                 !.absent = (th[t].file \notin initialized)]]
    /\ UNCHANGED <<cfg, env, dirs, disk, lazy, initialized, hist, stderr,
                   faults, ghost>>

\* A registry that forgets a filename it is asked about again
InsertUnlockEvicting(t) ==
    /\ th[t].pc = "locked"
    /\ initialized' = IF th[t].absent THEN initialized \cup {th[t].file}
                      ELSE initialized \ {th[t].file}
    /\ lockOwner' = NoThread
    /\ th' = [th EXCEPT ![t] = [@ EXCEPT !.should_clear = th[t].absent,
                 !.pc = IF th[t].absent THEN "clear" ELSE "open"]]
    /\ UNCHANGED <<cfg, env, dirs, disk, lazy, hist, stderr, faults, ghost>>

\* A registry that is told of a filename only once its write has succeeded:
\* the block decides, and inserts nothing
InsertUnlockDeferred(t) ==
    /\ th[t].pc = "locked"
    /\ initialized' = initialized
    /\ lockOwner' = NoThread
    /\ th' = [th EXCEPT ![t] = [@ EXCEPT !.should_clear = th[t].absent,
                 !.pc = IF th[t].absent THEN "clear" ELSE "open"]]
    /\ UNCHANGED <<cfg, env, dirs, disk, lazy, hist, stderr, faults, ghost>>

\* A guard that lives to the end of the function and is leaked there
InsertUnlockLeaked(t) ==
    /\ th[t].pc = "locked"
    /\ initialized' = IF th[t].absent THEN initialized \cup {th[t].file}
                      ELSE initialized
    /\ lockOwner' = lockOwner
    /\ th' = [th EXCEPT ![t] = [@ EXCEPT !.should_clear = th[t].absent,
                 !.pc = IF th[t].absent THEN "clear" ELSE "open"]]
    /\ UNCHANGED <<cfg, env, dirs, disk, lazy, hist, stderr, faults, ghost>>

\* Lines 137-143: insert when absent; the guard is dropped at the end of the
\* block, and should_clear is its value.
InsertUnlock(t) ==
    /\ th[t].pc = "locked"
    /\ initialized' = IF th[t].absent THEN initialized \cup {th[t].file}
                      ELSE initialized
    /\ lockOwner' = NoThread
    /\ th' = [th EXCEPT ![t] = [@ EXCEPT !.should_clear = th[t].absent,
                 !.pc = IF th[t].absent THEN "clear" ELSE "open"]]
    /\ UNCHANGED <<cfg, env, dirs, disk, lazy, hist, stderr, faults, ghost>>

\* Handles of other threads on a path that is unlinked keep their file.
Orphaned(t, path) ==
    [u \in Threads |->
        IF u /= t /\ th[u].path = path /\ th[u].handle = "live"
        THEN [th[u] EXCEPT !.handle = "orphan"] ELSE th[u]]

\* Lines 145-147: let _ = fs::remove_file(&path)
Clear(t) ==
    /\ th[t].pc = "clear"
    /\ \/ /\ Exists(disk, th[t].path)
          /\ disk' = Unlink(disk, th[t].path)
          /\ th' = [Orphaned(t, th[t].path) EXCEPT ![t] = [@ EXCEPT !.pc = "open"]]
          /\ UNCHANGED faults
       \/ /\ ~Exists(disk, th[t].path)
          /\ th' = [th EXCEPT ![t] = [@ EXCEPT !.pc = "open"]]
          /\ UNCHANGED <<disk, faults>>
       \/ /\ Exists(disk, th[t].path) /\ CanFail
          /\ faults' = faults + 1
          /\ th' = [th EXCEPT ![t] = [Fail(@, "delete") EXCEPT !.pc = "open"]]
          /\ UNCHANGED disk
    /\ ghost' = [ghost EXCEPT !.removes[th[t].file] = @ + 1]
    /\ UNCHANGED <<cfg, env, dirs, lazy, initialized, lockOwner, hist, stderr>>

\* The writer after the pieces from r.next on that need no system call.
Filled(r) ==
    LET st == BufFill(r.buf, Pieces(r.content, r.header, r.context), r.next)
    IN [r EXCEPT !.buf = st.buf, !.next = st.next,
                 !.pc = IF st.next > Len(Pieces(r.content, r.header, r.context))
                        THEN "flush" ELSE "write"]

\* open with append(true) alone: nothing is created
OpenedExisting(d, path) == d

\* open with create(true).truncate(true)
CreatedTruncated(d, path) == [q \in DOMAIN d \cup {path} |-> IF q = path THEN << >> ELSE d[q]]

\* open with create(true).append(true)
Created(d, path) == IF Exists(d, path) THEN d ELSE d @@ (path :> << >>)

\* Line 150-151: OpenOptions::new().create(true).append(true).open(&path)?
Open(t) ==
    /\ th[t].pc = "open"
    /\ \/ /\ Pop(th[t].path) \in dirs
          /\ disk' = Created(disk, th[t].path)
          /\ th' = [th EXCEPT ![t] =
                      Filled([@ EXCEPT !.handle = "live", !.next = 1,
                                       !.created = cfg.history
                                                   /\ ~Exists(disk, th[t].path)])]
          /\ UNCHANGED <<hist, stderr, faults>>
       \/ /\ Pop(th[t].path) \notin dirs
          /\ Return(t, Fail(th[t], "open"), "Err")
          /\ UNCHANGED <<disk, faults>>
       \/ /\ Pop(th[t].path) \in dirs /\ CanFail
          /\ faults' = faults + 1
          /\ Return(t, Fail(th[t], "open"), "Err")
          /\ UNCHANGED disk
    /\ UNCHANGED <<cfg, env, dirs, lazy, initialized, lockOwner, ghost>>

\* A failed write or flush whose error is discarded (let _ = ...): the call
\* goes on to return Ok.
FailedSwallowed(t, what) ==
    /\ th' = [th EXCEPT ![t] = [Fail(@, what) EXCEPT !.pc = "drop", !.res = "Ok"]]
    /\ UNCHANGED <<hist, stderr>>

\* A failed write or flush: `?` returns the error, and the BufWriter is dropped
\* with whatever it still holds.
Failed(t, what) ==
    IF th[t].buf = << >>
    THEN Return(t, Fail(th[t], what), "Err")
    ELSE /\ th' = [th EXCEPT ![t] = [Fail(@, what) EXCEPT !.pc = "drop", !.res = "Err"]]
         /\ UNCHANGED <<hist, stderr>>

\* Lines 153-175: a writeln! whose piece does not fit: the buffer is written
\* out, or the piece is written directly.
Write(t) ==
    LET r == th[t]
        piece == Pieces(r.content, r.header, r.context)[r.next]
    IN
    /\ r.pc = "write"
    /\ \/ /\ NeedsFlush(r.buf, piece)
          /\ disk' = Appended(disk, r.path, r.handle, Concat(r.buf))
          /\ th' = [th EXCEPT ![t] = Filled([r EXCEPT
                        !.sent = Append(@, Concat(r.buf)), !.buf = << >>])]
          /\ UNCHANGED <<hist, stderr, faults>>
       \/ /\ ~NeedsFlush(r.buf, piece)
          /\ disk' = Appended(disk, r.path, r.handle, piece)
          /\ th' = [th EXCEPT ![t] = Filled([r EXCEPT
                        !.sent = Append(@, piece), !.next = @ + 1])]
          /\ UNCHANGED <<hist, stderr, faults>>
       \/ /\ CanFail
          /\ faults' = faults + 1
          /\ Failed(t, "write")
          /\ UNCHANGED disk
    /\ UNCHANGED <<cfg, env, dirs, lazy, initialized, lockOwner, ghost>>

\* Ok(()) without writer.flush(): the bytes stay in the buffer at the return.
FlushForgotten(t) ==
    /\ th[t].pc = "flush"
    /\ Return(t, th[t], "Ok")
    /\ UNCHANGED <<cfg, env, dirs, disk, lazy, initialized, lockOwner, faults, ghost>>

\* Lines 177-179: writer.flush()?; Ok(())
Flush(t) ==
    LET r == th[t] IN
    /\ r.pc = "flush"
    /\ \/ /\ disk' = Appended(disk, r.path, r.handle, Concat(r.buf))
          /\ Return(t, [r EXCEPT !.sent = Append(@, Concat(r.buf)), !.buf = << >>],
                    "Ok")
          /\ UNCHANGED faults
       \/ /\ CanFail
          /\ faults' = faults + 1
          /\ Failed(t, "flush")
          /\ UNCHANGED disk
    /\ UNCHANGED <<cfg, env, dirs, lazy, initialized, lockOwner, ghost>>

\* Drop of a BufWriter that still holds bytes: one more attempt to write
\* them, its error ignored.
Drop(t) ==
    LET r == th[t] IN
    /\ r.pc = "drop"
    /\ \/ /\ disk' = Appended(disk, r.path, r.handle, Concat(r.buf))
          /\ Return(t, [r EXCEPT !.sent = Append(@, Concat(r.buf)), !.buf = << >>],
                    r.res)
          /\ UNCHANGED faults
       \/ /\ CanFail
          /\ faults' = faults + 1
          /\ Return(t, Fail(r, "drop"), r.res)
          /\ UNCHANGED disk
    /\ UNCHANGED <<cfg, env, dirs, lazy, initialized, lockOwner, ghost>>

----------------------------------------------------------------------------
(* Specifications *)

\* Something outside the library changes the environment.
EnvChange ==
    /\ ghost.envChanges < MaxEnvChanges
    /\ \E e \in Envs \ {env} : env' = e
    /\ ghost' = [ghost EXCEPT !.envChanges = @ + 1]
    /\ UNCHANGED <<cfg, dirs, disk, lazy, initialized, lockOwner, th, hist,
                   stderr, faults>>

Step(t) ==
    \/ ApiCall(t)
    \/ MacroCall(t)
    \/ LazyBegin(t)
    \/ LazyEnd(t)
    \/ Mkdir(t)
    \/ LockContains(t)
    \/ InsertUnlock(t)
    \/ Clear(t)
    \/ Open(t)
    \/ Write(t)
    \/ Flush(t)
    \/ Drop(t)

Next == \E t \in Threads : Step(t)

Spec == Init /\ [][Next]_vars

\* Two threads, started where no debug directory exists yet, that the
\* scheduler does not starve: a thread that can take a step of a call it is
\* in takes one in the end. Whether and when a thread starts a call is up to
\* the host program.
Progress(t) ==
    \/ LazyBegin(t)
    \/ LazyEnd(t)
    \/ Mkdir(t)
    \/ LockContains(t)
    \/ InsertUnlock(t)
    \/ Clear(t)
    \/ Open(t)
    \/ Write(t)
    \/ Flush(t)
    \/ Drop(t)

InitLive ==
    /\ cfg = [threads |-> Threads, calls |-> MaxLiveCalls,
              sites |-> {ApiSite("debug.log", None, None, "small"),
                         MacroSite("name => c", "custom", "debug.log", "INFO", "huge")},
              features |-> NoFeatures, logging |-> TRUE, history |-> FALSE]
    /\ env = Env0
    /\ dirs = {} /\ disk = << >>
    /\ InitProcess

\* Where a call can take a step: it waits only for the DEBUG_DIR cell while
\* another thread runs the initialiser, and for the lock while it is held.
CanProgress(t) ==
    \/ th[t].pc = "deref" /\ lazy.state /= "running"
    \/ th[t].pc = "lock" /\ LockFree(lockOwner)
    \/ th[t].pc \in {"lazy", "locked", "clear", "open", "write", "flush", "drop"}

\* WF_vars(Progress(t)), with ENABLED <<Progress(t)>>_vars written out as
\* CanProgress(t).
Fair(t) == []<>(~CanProgress(t)) \/ []<><<Progress(t)>>_vars

SpecLive == InitLive /\ [][Next]_vars /\ \A t \in Threads : Fair(t)

\* One thread that makes its calls one after another.
InitSeq ==
    /\ cfg = [threads |-> {"t1"}, calls |-> MaxSeqCalls, sites |-> Sites,
              features |-> NoFeatures, logging |-> TRUE, history |-> FALSE]
    /\ env = Env0
    /\ InitFs(determine_debug_dir(NoFeatures, Env0))
    /\ InitProcess

SpecSeq == InitSeq /\ [][Next]_vars

\* One thread whose call sites cover every shape of (header, context) with
\* small and huge contents, and every arm of the macro, one of them with a
\* huge content as well.
AllSites ==
    {ApiSite(f, h, c, z) : f \in {"debug.log"}, h \in {None, Some("INFO")},
                           c \in {None, Some(CallSite)}, z \in {"small", "huge"}}
    \cup {MacroSite(arm, "custom", "custom.log", "INFO", "small") :
            arm \in MacroArms}
    \cup {MacroSite("name => c", "custom", "custom.log", "INFO", "huge")}

InitForms ==
    /\ cfg = [threads |-> {"t1"}, calls |-> MaxFormCalls, sites |-> AllSites,
              features |-> NoFeatures, logging |-> TRUE, history |-> FALSE]
    /\ env = Env0
    /\ InitFs(determine_debug_dir(NoFeatures, Env0))
    /\ InitProcess

SpecForms == InitForms /\ [][Next]_vars

\* Two threads in an environment that changes under them.
InitEnv ==
    /\ cfg = [threads |-> Threads, calls |-> MaxEnvCalls,
              sites |-> {ApiSite("debug.log", None, None, "small"),
                         MacroSite("c", "custom", "custom.log", "INFO", "huge")},
              features |-> NoFeatures, logging |-> TRUE, history |-> FALSE]
    /\ env \in Envs
    /\ dirs = {} /\ disk = << >>
    /\ InitProcess

NextEnv == Next \/ EnvChange

SpecEnv == InitEnv /\ [][NextEnv]_vars

\* Something outside the library (a test harness, the user) removes a log
\* file; a writer that has it open keeps writing to the unlinked file.
ExternalRemove ==
    /\ ghost.extRemoves < MaxExtRemoves
    /\ \E q \in DOMAIN disk :
          /\ disk' = Unlink(disk, q)
          /\ th' = Orphaned(NoThread, q)
    /\ ghost' = [ghost EXCEPT !.extRemoves = @ + 1]
    /\ UNCHANGED <<cfg, env, dirs, lazy, initialized, lockOwner, hist, stderr,
                   faults>>

\* One thread whose log files may be removed from outside at any moment.
InitExt ==
    /\ cfg = [threads |-> {"t1"}, calls |-> MaxExtCalls,
              sites |-> {ApiSite("debug.log", None, None, "small"),
                         MacroSite("name => c", "custom", "debug.log", "INFO", "huge")},
              features |-> NoFeatures, logging |-> TRUE, history |-> TRUE]
    /\ env = Env0
    /\ InitFs(determine_debug_dir(NoFeatures, Env0))
    /\ InitProcess

NextExt == Next \/ ExternalRemove

SpecExt == InitExt /\ [][NextExt]_vars

\* One thread in a build that compiles odebug! in (debug_assertions or the
\* feature always_log) or out, whose call sites cover every arm of the macro
\* with two choices of file identifier, file name and header.
MacroSites ==
    {MacroSite(arm, a[1], a[2], a[3], "small") :
        arm \in MacroArms,
        a \in {<<"custom", "debug.log", "INFO">>, <<"debug", "custom.log", "WARN">>}}
    \cup {MacroSite("c", "custom", "custom.log", "INFO", "huge"),
          ApiSite("debug.log", None, None, "small")}

InitMacro ==
    /\ \E logging \in BOOLEAN :
          cfg = [threads |-> {"t1"}, calls |-> MaxMacroCalls, sites |-> MacroSites,
                 features |-> NoFeatures, logging |-> logging, history |-> TRUE]
    /\ env = Env0
    /\ InitFs(determine_debug_dir(NoFeatures, Env0))
    /\ InitProcess

SpecMacro == InitMacro /\ [][Next]_vars

\* One thread in any build (the two cargo features) and any environment: the
\* current directory is /ws/crate or /tmp or cannot be read, CARGO_TARGET_DIR
\* is unset, a path or bytes that are no Unicode, and each directory from the
\* root to /ws/crate holds any kind of Cargo.toml or none.
CargoKinds == {"absent", "package", "workspace", "unreadable"}
CargoDirs == {SubSeq(Cwd1, 1, k) : k \in 1..Len(Cwd1)}
TargetDir == <<"/", "build">>
Features == [output_to_target : BOOLEAN, use_workspace : BOOLEAN]
ResolveEnvs ==
    {e \in [cwd : {None, Some(Cwd1), Some(Cwd2)},
            target : {None, Some(TargetDir)},
            unicode : BOOLEAN,
            cargo : [CargoDirs -> CargoKinds]] :
        /\ e.target = None => e.unicode
        /\ e.cargo[<<"/">>] \in {"absent", "workspace"}}

InitResolve ==
    /\ \E feat \in Features :
          cfg = [threads |-> {"t1"}, calls |-> MaxResolveCalls,
                 sites |-> {ApiSite("debug.log", None, None, "small"),
                            MacroSite("::Header(c)", "custom", "custom.log",
                                      "INFO", "huge")},
                 features |-> feat, logging |-> TRUE, history |-> FALSE]
    /\ env \in ResolveEnvs
    /\ \/ dirs = {} /\ disk = << >>
       \/ /\ dirs = {determine_debug_dir(cfg.features, env)}
          /\ disk = [q \in {join(determine_debug_dir(cfg.features, env), "debug.log")}
                       |-> <<Stale>>]
    /\ InitProcess

SpecResolve == InitResolve /\ [][Next]_vars

----------------------------------------------------------------------------
(* Properties: the write registry and the truncation *)

\* Positions of write_to_debug_file after the block that computes should_clear
Decided == {"clear", "open", "write", "flush", "drop"}

DebugPath(f) == join(lazy.value, f)

\* The calls on f that have computed should_clear = b: <<thread, number>>
Deciders(f, b) ==
    UNION {{<<t, i>> : i \in {j \in DOMAIN hist[t] :
                                 hist[t][j].file = f /\ hist[t][j].clear = b}}
           : t \in Threads}
    \cup {<<t, th[t].n>> : t \in {u \in Threads :
                 th[u].pc \in Decided /\ th[u].file = f /\ th[u].should_clear = b}}

\* C1: for every filename, at most one call ever obtains should_clear = true,
\* whatever the interleaving; and any call that obtained false did so after
\* the one call that obtained true.
C1_OneTruncateDecision ==
    \A f \in FileNames :
        /\ Cardinality(Deciders(f, TRUE)) <= 1
        /\ Deciders(f, FALSE) /= {} => Cardinality(Deciders(f, TRUE)) = 1

\* Two calls for the same file are in flight, one with true, one with false.
C1_Witness ==
    \E t, u \in Threads :
        /\ t /= u /\ th[t].pc \in Decided /\ th[u].pc \in Decided
        /\ th[t].file = th[u].file
        /\ th[t].should_clear /\ ~th[u].should_clear

\* C2: between the truncate decision for a file and its deletion no other
\* writer has the file open or appends to it.
C2_NoWriterBeforeTruncation ==
    \A t, u \in Threads :
        (t /= u /\ th[t].pc = "clear" /\ th[u].file = th[t].file)
            => th[u].handle = "none"

\* The chunks i..j of the file at path spell entry.
HasEntry(d, path, entry) ==
    /\ Exists(d, path)
    /\ \E i, j \in 1..Len(d[path]) : i <= j /\ Concat(SubSeq(d[path], i, j)) = entry

EntryOf(c) == Rendered(c.content, c.header, c.context)

\* C3: when every thread has made one call, the first ever to one shared
\* file, and all returned Ok, the file was removed once and holds every entry.
C3_AllFirstEntriesKept ==
    \A f \in FileNames :
        (\A t \in cfg.threads :
            /\ th[t].pc = "idle" /\ Len(hist[t]) = 1
            /\ hist[t][1].file = f /\ hist[t][1].res = "Ok")
        => /\ ghost.removes[f] = 1
           /\ \A t \in cfg.threads : HasEntry(disk, DebugPath(f), EntryOf(hist[t][1]))

\* No call on f has returned Ok yet.
NoOkYet(f) ==
    \A u \in Threads : \A i \in DOMAIN hist[u] :
        ~(hist[u][i].file = f /\ hist[u][i].res = "Ok")

\* Thread t returns in this step.
Returns(t) == Len(hist'[t]) = Len(hist[t]) + 1

\* C4: right after the first call on a file that returns Ok, the file holds
\* that call's entry and nothing else.
C4_FirstWriteAlone ==
    [][\A t \in Threads :
          (Returns(t) /\ hist'[t][Len(hist'[t])].res = "Ok" /\ NoOkYet(th[t].file))
          => Bytes(disk', th[t].path) = EntryOf(th[t])]_vars

----------------------------------------------------------------------------
(* Properties: appends, flushing and errors *)

Chunks(d, path) == IF Exists(d, path) THEN d[path] ELSE << >>

IsSuffix(s, w) == Len(s) <= Len(w) /\ SubSeq(w, Len(w) - Len(s) + 1, Len(w)) = s

\* The chunks thread t sent to f so far, call after call (the bytes a failed
\* call got through included).
RECURSIVE SentTo(_, _)
SentTo(h, f) ==
    IF h = << >> THEN << >>
    ELSE (IF Head(h).file = f THEN Head(h).sent ELSE << >>) \o SentTo(Tail(h), f)

SentSoFar(t, f) ==
    SentTo(hist[t], f) \o (IF th[t].file = f THEN th[t].sent ELSE << >>)

\* C5: in a program with one thread, the file ends with what the calls on it
\* sent, in call order and back to back; each call that returned Ok sent
\* exactly its rendered entry. So N successful writes that follow one another
\* leave their N entries in order, adjacent, none lost, none twice.
C5_AppendedInCallOrder ==
    \A t \in cfg.threads : \A f \in FileNames :
        /\ lazy.state = "done" =>
              IsSuffix(SentSoFar(t, f), Chunks(disk, DebugPath(f)))
        /\ \A i \in DOMAIN hist[t] :
              hist[t][i].res = "Ok" => Concat(hist[t][i].sent) = EntryOf(hist[t][i])

\* Three calls on one file have returned Ok, the later two without truncating.
C5_Witness ==
    \E t \in cfg.threads :
        /\ Len(hist[t]) = 3
        /\ \A i \in 1..3 : hist[t][i].res = "Ok" /\ hist[t][i].file = hist[t][1].file
        /\ hist[t][1].clear /\ ~hist[t][2].clear /\ ~hist[t][3].clear

\* C6: the DEBUG_DIR closure runs at most once, and every read of DEBUG_DIR
\* yields the one value it stored, whatever the environment has become.
C6_ResolvedOnce ==
    /\ ghost.computed <= 1
    /\ Cardinality(ghost.reads) <= 1
    /\ \A t \in Threads : th[t].path /= << >> => Pop(th[t].path) = lazy.value
    /\ lazy.state = "done" => ghost.reads \subseteq {lazy.value}

\* Both threads have read DEBUG_DIR, one of them at least after the
\* environment changed to one that resolves to another directory.
C6_Witness ==
    /\ ghost.envChanges > 0 /\ ghost.lateReads > 0
    /\ \A t \in Threads : th[t].path /= << >> \/ hist[t] /= << >>
    /\ determine_debug_dir(cfg.features, env) /= lazy.value

\* The rendering table of the entry formatter
Line(s) == s \o "\n"
BlankLine == "\n"
Block(content, header, context) ==
    IF IsSome(header) /\ IsSome(context) THEN
        BlankLine \o Line(SEPARATOR_LINE)
        \o Line("> " \o Unwrap(header) \o " (" \o Unwrap(context) \o ")")
        \o Line(SEPARATOR_LINE) \o Line(content)
    ELSE IF IsSome(header) THEN
        BlankLine \o Line(SEPARATOR_LINE) \o Line("> " \o Unwrap(header))
        \o Line(SEPARATOR_LINE) \o Line(content)
    ELSE IF IsSome(context) THEN
        BlankLine \o Line(SEPARATOR_LINE)
        \o Line("> [at " \o Unwrap(context) \o "]")
        \o Line(SEPARATOR_LINE) \o Line(content)
    ELSE BlankLine \o Line(content)

\* The last two pieces a call hands to its writer
LastPieces(c) ==
    LET ps == Pieces(c.content, c.header, c.context) IN SubSeq(ps, Len(ps) - 1, Len(ps))

\* C7: the bytes a successful call writes are the block of the table for its
\* (content, header, context), and end with the content and a line break.
C7_RenderedBlock ==
    \A t \in Threads : \A i \in DOMAIN hist[t] :
        hist[t][i].res = "Ok" =>
            /\ Concat(hist[t][i].sent) = Block(hist[t][i].content, hist[t][i].header,
                                               hist[t][i].context)
            /\ LastPieces(hist[t][i]) = <<hist[t][i].content, "\n">>

\* A call with a header only and a call with a context only have returned Ok.
C7_Witness ==
    \E t \in Threads : \E i, j \in DOMAIN hist[t] :
        /\ hist[t][i].res = "Ok" /\ hist[t][j].res = "Ok"
        /\ IsSome(hist[t][i].header) /\ ~IsSome(hist[t][i].context)
        /\ ~IsSome(hist[t][j].header) /\ IsSome(hist[t][j].context)

\* C8: a call that returned Ok left nothing in its buffer: every byte of its
\* entry had been written to the file it opened.
C8_OkMeansFlushed ==
    \A t \in Threads : \A i \in DOMAIN hist[t] :
        hist[t][i].res = "Ok" =>
            /\ hist[t][i].left = << >>
            /\ TotalLen(hist[t][i].sent) =
                  TotalLen(Pieces(hist[t][i].content, hist[t][i].header,
                                  hist[t][i].context))

\* A call with a huge content, written in three system calls, has returned Ok.
C8_Witness ==
    \E t \in Threads : \E i \in DOMAIN hist[t] :
        hist[t][i].res = "Ok" /\ Len(hist[t][i].sent) = 3

\* The steps whose failure write_to_debug_file returns
Propagated == {"open", "write", "flush"}

\* C9: a call returns Err exactly when its open, a write or the flush failed;
\* a failed create_dir_all or remove_file alone never makes it return Err.
C9_ErrIffOpenWriteFlush ==
    \A t \in Threads : \A i \in DOMAIN hist[t] :
        hist[t][i].res = "Err" <=> hist[t][i].failed \cap Propagated /= {}

\* A call whose delete failed has returned Ok.
C9_Witness ==
    \E t \in Threads : \E i \in DOMAIN hist[t] :
        "delete" \in hist[t][i].failed /\ hist[t][i].res = "Ok"

MacroCalls == {<<t, i>> \in Threads \X (1..Len(CallNo)) :
                  i \in DOMAIN hist[t] /\ hist[t][i].via = "macro"}

Printed == Propagated \cup {"lazy_mkdir", "resolve"}

----------------------------------------------------------------------------
(* Properties: the directory resolver *)

\* The directories from the current directory up to the root
Ancestors(e) == {SubSeq(Unwrap(e.cwd), 1, k) : k \in 1..Len(Unwrap(e.cwd))}

\* Those whose Cargo.toml exists, can be read and holds the marker
Qualifying(e) ==
    IF e.cwd = None THEN {}
    ELSE {d \in Ancestors(e) : CargoKind(e, d) = "workspace"}

\* The nearest of them, seen from the current directory
Nearest(e) == CHOOSE d \in Qualifying(e) : \A x \in Qualifying(e) : Len(x) <= Len(d)

\* <current_working_directory>/c; the relative path c when the process has no
\* current directory it can read.
UnderCwd(e, c) == IF e.cwd = None THEN <<c>> ELSE Append(Unwrap(e.cwd), c)

Resolved == lazy.state = "done"

\* C11 as stated: with output_to_target the directory is <base>/odebug, <base>
\* being the value of CARGO_TARGET_DIR when it is set, else
\* <workspace_root>/target with use_workspace and a root found, else
\* <current_working_directory>/target; it always ends with odebug.
C11_TargetDirAsStated ==
    (Resolved /\ cfg.features.output_to_target) =>
        LET base == IF env.target /= None THEN Unwrap(env.target)
                    ELSE IF cfg.features.use_workspace /\ Qualifying(env) /= {}
                    THEN Append(Nearest(env), "target")
                    ELSE UnderCwd(env, "target")
        IN /\ lazy.value = Append(base, "odebug")
           /\ lazy.value[Len(lazy.value)] = "odebug"

\* The build-output base the code finds: none when CARGO_TARGET_DIR is unset
\* or no valid Unicode, no workspace root applies and the current directory
\* cannot be read.
TargetBase(feat, e) ==
    IF e.target /= None /\ e.unicode THEN Some(Unwrap(e.target))
    ELSE IF feat.use_workspace /\ Qualifying(e) /= {}
    THEN Some(Append(Nearest(e), "target"))
    ELSE IF e.cwd /= None THEN Some(Append(Unwrap(e.cwd), "target"))
    ELSE None

\* The directory of a build without output_to_target
DotDebug(feat, e) ==
    IF feat.use_workspace /\ Qualifying(e) /= {}
    THEN Append(Nearest(e), ".debug")
    ELSE UnderCwd(e, ".debug")

TargetWarning == "Warning: Could not find target directory, falling back to default location"

\* C11 amended: with output_to_target the directory is <base>/odebug, <base>
\* being the value of CARGO_TARGET_DIR when it is set to valid Unicode, else
\* <workspace_root>/target with use_workspace and a root found, else
\* <current_working_directory>/target when the current directory can be read.
\* When none of these gives a base, the resolver warns on standard error and
\* yields the .debug directory of a build without output_to_target; so the
\* path ends with odebug exactly when a base was found.
C11_TargetDirOrDefault ==
    (Resolved /\ cfg.features.output_to_target) =>
        LET base == TargetBase(cfg.features, env) IN
        /\ IsSome(base) => lazy.value = Append(Unwrap(base), "odebug")
        /\ ~IsSome(base) =>
              /\ lazy.value = DotDebug(cfg.features, env)
              /\ \E i \in DOMAIN stderr : stderr[i] = TargetWarning
        /\ lazy.value[Len(lazy.value)] = "odebug" <=> IsSome(base)

\* A build with both features has resolved under the target directory of a
\* workspace root that is not the current directory.
C11_Witness ==
    /\ Resolved /\ cfg.features.output_to_target /\ cfg.features.use_workspace
    /\ env.target = None /\ Qualifying(env) /= {}
    /\ Nearest(env) /= Unwrap(env.cwd)
    /\ lazy.value = Append(Append(Nearest(env), "target"), "odebug")

\* C12: without output_to_target the directory is <workspace_root>/.debug
\* with use_workspace and a root found, and <current_working_directory>/.debug
\* in every other case (the relative path .debug when the current directory
\* cannot be read): the resolution always yields a path.
C12_DotDebugDir ==
    (Resolved /\ ~cfg.features.output_to_target) =>
        /\ lazy.value /= << >>
        /\ IF cfg.features.use_workspace /\ Qualifying(env) /= {}
           THEN lazy.value = Append(Nearest(env), ".debug")
           ELSE lazy.value = UnderCwd(env, ".debug")

\* A build with use_workspace alone has found no root and fallen back to the
\* current directory, though a Cargo.toml without the marker lies on the way.
C12_Witness ==
    /\ Resolved /\ ~cfg.features.output_to_target /\ cfg.features.use_workspace
    /\ env.cwd = Some(Cwd1) /\ Qualifying(env) = {}
    /\ env.cargo[Cwd1] = "package"
    /\ lazy.value = Append(Cwd1, ".debug")

\* C18: find_workspace_root returns the nearest directory, from the current
\* directory upward, whose Cargo.toml exists, can be read and holds
\* [workspace]; it returns None when no directory up to the root qualifies
\* (or the current directory cannot be read). It returns on every input.
C18_NearestWorkspaceRoot ==
    ghost.root /= << >> =>
        /\ Len(ghost.root) = 1
        /\ IF Qualifying(env) = {} THEN ghost.root[1] = None
           ELSE ghost.root[1] = Some(Nearest(env))

\* The walk passed a Cargo.toml that does not qualify and returned the
\* nearer of two workspace roots.
C18_Witness ==
    /\ ghost.root /= << >> /\ env.cwd = Some(Cwd1)
    /\ env.cargo[Cwd1] \in {"package", "unreadable"}
    /\ env.cargo[Pop(Cwd1)] = "workspace" /\ env.cargo[<<"/">>] = "workspace"
    /\ ghost.root[1] = Some(Pop(Cwd1))

----------------------------------------------------------------------------
(* Properties: the forms of odebug! *)

\* The forms by what they name
PathForms == {"file::Header(c)", "file::Header(fmt, args)", "file::(c)",
              "file::(fmt, args)"}
NameForms == {"name => c", "name => fmt, args", "lit.to_file(name)",
              "id.to_file(name)", "lit.to_file(name).with_header(h)",
              "id.to_file(name).with_header(h)"}
HeaderForms == {"file::Header(c)", "file::Header(fmt, args)", "::Header(c)",
                "::Header(fmt, args)", "lit.with_header(h)", "id.with_header(h)",
                "lit.to_file(name).with_header(h)",
                "id.to_file(name).with_header(h)"}

\* The call a form stands for: c is a call, in flight or returned
FormCall(c) ==
    /\ c.file = (IF c.site.arm \in PathForms THEN c.site.ident \o ".log"
                 ELSE IF c.site.arm \in NameForms THEN c.site.name
                 ELSE "debug.log")
    /\ c.header = (IF c.site.arm \in HeaderForms THEN c.site.header ELSE None)
    /\ c.context = Some(CallSite)

\* The invocations of the macro that are over, and those in flight
MacroOver == {hist[c[1]][c[2]] : c \in MacroCalls}
MacroInFlight == {th[t] : t \in {u \in Threads : th[u].pc /= "idle" /\ th[u].via = "macro"}}

\* C13 as stated: every invocation of odebug! makes one call of
\* write_to_debug_file, with the filename, header and context its form fixes.
C13_EveryFormOneCall ==
    /\ \A c \in MacroOver : c.end /= "nothing" /\ FormCall(c)
    /\ \A c \in MacroInFlight : FormCall(c)

\* C13 amended: in a build with debug_assertions or the feature always_log
\* every invocation of odebug! makes one call of write_to_debug_file with the
\* filename, header and context its form fixes; in every other build the
\* invocation expands to nothing and makes no call.
C13_FormsWhenLogging ==
    /\ cfg.logging =>
          /\ \A c \in MacroOver : c.end /= "nothing" /\ FormCall(c)
          /\ \A c \in MacroInFlight : FormCall(c)
    /\ ~cfg.logging =>
          /\ MacroInFlight = {}
          /\ \A c \in MacroOver : c.end = "nothing" /\ c.sent = << >>

\* An invocation content.to_file("custom.log").with_header("WARN") has
\* written under that header to that file.
C13_Witness ==
    \E c \in MacroOver :
        /\ c.site.arm = "id.to_file(name).with_header(h)" /\ c.res = "Ok"
        /\ c.file = "custom.log" /\ c.header = Some("WARN")

----------------------------------------------------------------------------
(* Properties: the registry, its lock and the other files *)

\* The file name of a path
FileOf(path) == path[Len(path)]

\* C14: INITIALIZED_FILES starts empty and only grows; a filename enters it in
\* the call that found it absent, under the lock; remove_file is called on
\* directory/f at most once, and a file disappears from the directory only in
\* the delete step of the call that entered its name.
C14_RegistryOnlyGrows ==
    /\ initialized = {}
    /\ [][/\ initialized \subseteq initialized'
          /\ \A f \in initialized' \ initialized :
                \E t \in Threads : /\ th[t].pc = "locked" /\ th[t].file = f
                                    /\ lockOwner = t /\ th'[t].should_clear
          /\ \A f \in FileNames :
                ghost'.removes[f] /= ghost.removes[f] =>
                    /\ ghost'.removes[f] = 1
                    /\ \E t \in Threads : /\ th[t].pc = "clear" /\ th[t].file = f
                                        /\ th[t].should_clear
          /\ \A q \in DOMAIN disk \ DOMAIN disk' :
                \E t \in Threads : /\ th[t].pc = "clear" /\ th[t].path = q
                                    /\ th[t].should_clear]_vars

\* A file was deleted by the call that entered its name, and a later call on
\* the same name has returned without a delete.
C14_Witness ==
    \E f \in initialized :
        /\ ghost.removes[f] = 1
        /\ \E t, u \in Threads : \E i \in DOMAIN hist[t], j \in DOMAIN hist[u] :
              /\ hist[t][i].file = f /\ hist[t][i].clear
              /\ hist[u][j].file = f /\ ~hist[u][j].clear
              /\ "delete" \notin hist[t][i].failed

\* Positions of write_to_debug_file that do file I/O
InFileIo == {"clear", "open", "write", "flush", "drop"}

\* C16: a thread that deletes, opens, appends to or flushes a log file does
\* not hold the INITIALIZED_FILES lock; its holder is always between the
\* membership check and the insert, so a thread that waits for the lock never
\* waits for file I/O.
C16_NoLockDuringIo ==
    \A t \in Threads :
        /\ th[t].pc \in InFileIo => lockOwner /= t
        /\ lockOwner = t => th[t].pc = "locked"

\* One thread appends to its file while the other holds the lock for a
\* different filename.
C16_Witness ==
    \E t, u \in Threads :
        /\ th[t].pc = "write" /\ th[u].pc = "locked" /\ lockOwner = u
        /\ th[t].file /= th[u].file

\* What a step changes of the file named g, or of g's membership
Touched(g) ==
    \/ (g \in initialized) /= (g \in initialized')
    \/ \E q \in DOMAIN disk \cup DOMAIN disk' :
          /\ FileOf(q) = g
          /\ \/ Exists(disk, q) /= Exists(disk', q)
             \/ Exists(disk, q) /\ Exists(disk', q) /\ disk[q] /= disk'[q]

\* C20: a step changes the content or the existence of directory/g, or the
\* membership of g in INITIALIZED_FILES, only when it is a step of a call on
\* g: calls on every other filename leave both as they are. Filenames are
\* names of files in the debug directory.
C20_OtherFilesUntouched ==
    [][\A g \in FileNames :
          Touched(g) => \E t \in Threads : th[t] /= th'[t] /\ th[t].file = g]_vars

\* Each of two files holds exactly the entry of the one call made on it.
C20_Witness ==
    \E t, u \in Threads : \E i \in DOMAIN hist[t], j \in DOMAIN hist[u] :
        /\ hist[t][i].file = "debug.log" /\ hist[u][j].file = "custom.log"
        /\ hist[t][i].res = "Ok" /\ hist[u][j].res = "Ok"
        /\ Bytes(disk, DebugPath("debug.log")) = EntryOf(hist[t][i])
        /\ Bytes(disk, DebugPath("custom.log")) = EntryOf(hist[u][j])
        /\ {"debug.log", "custom.log"} \subseteq initialized

\* What thread t sent to f in its calls after the i-th, the one in flight
\* included
SentAfter(t, i, f) ==
    SentTo(SubSeq(hist[t], i + 1, Len(hist[t])), f)
    \o (IF th[t].file = f THEN th[t].sent ELSE << >>)

\* C19: in a program with one thread, a first write to f that returned Err
\* has left f in INITIALIZED_FILES; no later call on f decides to truncate,
\* and the file ends with the chunks the failed call got through followed by
\* those of the later calls.
C19_FailedFirstWriteStaysInitialized ==
    \A t \in cfg.threads : \A i \in DOMAIN hist[t] :
        (hist[t][i].clear /\ hist[t][i].res = "Err") =>
            LET f == hist[t][i].file IN
            /\ f \in initialized
            /\ \A j \in DOMAIN hist[t] : (j > i /\ hist[t][j].file = f) => ~hist[t][j].clear
            /\ (th[t].file = f /\ th[t].pc \in Decided) => ~th[t].should_clear
            /\ IsSuffix(hist[t][i].sent \o SentAfter(t, i, f),
                        Chunks(disk, DebugPath(f)))

\* A first write failed after part of its entry reached the file; the next
\* write to the same file returned Ok without truncating, and the file holds
\* the part followed by the whole entry.
C19_Witness ==
    \E t \in cfg.threads : \E i, j \in DOMAIN hist[t] :
        /\ j = i + 1 /\ hist[t][i].file = hist[t][j].file
        /\ hist[t][i].clear /\ hist[t][i].res = "Err" /\ hist[t][i].sent /= << >>
        /\ ~hist[t][j].clear /\ hist[t][j].res = "Ok"
        /\ Bytes(disk, DebugPath(hist[t][i].file)) =
              Concat(hist[t][i].sent) \o EntryOf(hist[t][j])

\* The call of t that returns in this step
Returned(t) == hist'[t][Len(hist'[t])]

\* C15: an open that finds no file at directory/filename creates it, on a
\* first write (whose delete found nothing to delete) as on a later one (whose
\* file was removed from outside, and which takes no truncate decision); the
\* call returns Ok unless its open, a write or the flush fails, and when it
\* returns Ok and nobody removed the file meanwhile, the file holds exactly
\* the new entry.
C15_MissingFileIsCreated ==
    [][\A t \in cfg.threads :
          /\ (th[t].pc = "open" /\ ~Exists(disk, th[t].path)
                 /\ th'[t].pc \in {"write", "flush"})
               => (Exists(disk', th[t].path) /\ th'[t].created)
          /\ (Returns(t) /\ th[t].created) =>
               /\ Returned(t).res = "Ok" <=> Returned(t).failed \cap Propagated = {}
               /\ Returned(t).clear <=>
                     (\A i \in DOMAIN hist[t] : hist[t][i].file /= th[t].file)
               /\ (Returned(t).res = "Ok" /\ th[t].handle = "live") =>
                     Bytes(disk', th[t].path) = EntryOf(th[t])]_vars

\* The file of an initialized filename was removed from outside, and the next
\* write, without a truncate decision, has created it again with its entry.
C15_Witness ==
    \E t \in cfg.threads : \E i, j \in DOMAIN hist[t] :
        /\ i < j /\ hist[t][i].file = hist[t][j].file
        /\ hist[t][i].res = "Ok" /\ hist[t][j].res = "Ok"
        /\ ghost.extRemoves > 0
        /\ hist[t][j].created /\ ~hist[t][j].clear
        /\ Bytes(disk, DebugPath(hist[t][j].file)) = EntryOf(hist[t][j])

IsPrefix(s, w) == Len(s) <= Len(w) /\ SubSeq(w, 1, Len(s)) = s

\* The call that decided to truncate f has returned.
TruncationOver(f) ==
    \E t \in Threads : \E i \in DOMAIN hist[t] :
        hist[t][i].file = f /\ hist[t][i].clear

\* C21: once the call that took the truncate decision for f has returned, no
\* step of the library deletes, shortens or rewrites directory/f: a file that
\* exists stays, and its content after the step begins with its content
\* before it. So its content in a later state extends its content in every
\* earlier one.
C21_AppendOnlyAfterTruncation ==
    [][\A f \in FileNames :
          TruncationOver(f) =>
              /\ Exists(disk, DebugPath(f)) => Exists(disk', DebugPath(f))
              /\ IsPrefix(Chunks(disk, DebugPath(f)), Chunks(disk', DebugPath(f)))]_vars

\* The call that truncated a file has returned Ok, and a call made after it
\* has appended its entry behind the first.
C21_Witness ==
    \E f \in FileNames : \E t, u \in Threads :
        \E i \in DOMAIN hist[t], j \in DOMAIN hist[u] :
            /\ hist[t][i].file = f /\ hist[t][i].clear /\ hist[t][i].res = "Ok"
            /\ hist[u][j].file = f /\ ~hist[u][j].clear /\ hist[u][j].res = "Ok"
            /\ Chunks(disk, DebugPath(f)) = hist[t][i].sent \o hist[u][j].sent

----------------------------------------------------------------------------
(* Properties: termination *)

\* C17: under fair scheduling every call returns, and has then released the
\* lock if it took it: no thread waits forever for the lock or for the
\* DEBUG_DIR cell, and no set of threads blocks one another.
C17_EveryCallReturns ==
    \A t \in Threads :
        (th[t].pc /= "idle" \/ lockOwner = t) ~> (th[t].pc = "idle" /\ lockOwner /= t)

\* A thread waits for the lock while the other thread holds it.
C17_Witness ==
    \E t, u \in Threads :
        t /= u /\ th[t].pc = "lock" /\ lockOwner = u /\ th[u].pc = "locked"

====
